---- MODULE Spec2Model ----
(***************************************************************************)
(* data-whisperer: CSV ingestion (parseCSVContent, handleFile) and the     *)
(* query page (sendMessage, executeQueryPlan).                             *)
(*                                                                         *)
(* A JavaScript string is a sequence of one-character strings.  A record   *)
(* (Record<string, unknown>) is a function from a set of column names to   *)
(* values; a value is a string or Undefined.  Stored record values are     *)
(* strings: every stored record is a row of parseCSVContent.               *)
(***************************************************************************)
EXTENDS Integers, Sequences, FiniteSets, TLC

\* ------------------------------------------------------------- bounds
MaxValLen == 2
MaxRows == 2
MaxFilters == 2
MaxDatasets == 3
MaxTurns == 1
MaxContentLen == 5
MaxLines == 2
MaxFields == 2
MaxLineLen == 5
MaxSample == 3
MaxMixed == 100
MaxGenRows == 2
MaxImports == 1

VARIABLES
    fRows,      \* filter engine: the rows a fetch returned
    fPlan,      \* filter engine: the plan (filters, optional columns)
    fFiltered,  \* filter engine: rows after the loop over plan.filters
    fOut,       \* filter engine: rows after the projection
    fpc,        \* filter engine: "ready" before the loop body runs, "done" after
    records,    \* the records table: dataset id -> its records' data, in stored order
    messages,   \* QueryPage: useState<Message[]>
    input,      \* QueryPage: the text field
    isLoading,  \* QueryPage: useState(false)
    toast,      \* QueryPage: the title of the last toast, "none" before any
    qpc,        \* sendMessage: "idle", or the await it is suspended at
    userMsg,    \* sendMessage: userMsg.content
    response,   \* sendMessage: the planner's response
    qidx,       \* executeQueryPlan: position in plan.dataset_ids
    allResults, \* executeQueryPlan: the accumulator
    issued,     \* history: the fetches this execution issued, <<id, limit>> each
    fetched,    \* history: what each of them returned
    file,       \* UploadPage: useState<File | null>, the file's text
    parsed,     \* UploadPage: useState<ParsedCSV | null>
    status,     \* UploadPage: useState<ImportStatus>
    error,      \* UploadPage: useState("")
    upc,        \* handleFile, handleImport: "idle", or the callback or await waited for
    datasetName,\* UploadPage: useState("")
    datasets,   \* the datasets table: dataset id -> its row_count and status
    dsid,       \* handleImport: dataset.id, 0 before the insert answered
    ipos,       \* handleImport: i of the batch loop
    arg,        \* csv-parser library: the argument of the call
    ret,        \* csv-parser library: what the call returned
    lpc         \* csv-parser library: "ready" before the call, "done" after

fvars == <<fRows, fPlan, fFiltered, fOut, fpc>>

qvars == <<records, messages, input, isLoading, toast, qpc, userMsg, response, qidx,
           allResults, issued, fetched>>

uvars == <<file, parsed, status, error, upc, datasetName, datasets, dsid, ipos>>

\* the query page's variables but the records table
qrest == <<messages, input, isLoading, toast, qpc, userMsg, response, qidx,
           allResults, issued, fetched>>

lvars == <<arg, ret, lpc>>

vars == <<fvars, qvars, uvars, lvars>>

\* ------------------------------------------------------------ strings
Range(s) == {s[i] : i \in 1..Len(s)}

StringsUpTo(A, n) == UNION {[1..k -> A] : k \in 0..n}

SeqsUpTo(S, n) == UNION {[1..k -> S] : k \in 0..n}

\* the value of a property that is not there
Undefined == <<"undefined">>

IsWhite(c) == c \in {" ", "\t", "\n", "\r"}

RECURSIVE TrimStart(_)
TrimStart(s) ==
    IF s # <<>> /\ IsWhite(Head(s)) THEN TrimStart(Tail(s)) ELSE s

RECURSIVE TrimEnd(_)
TrimEnd(s) ==
    IF s # <<>> /\ IsWhite(s[Len(s)]) THEN TrimEnd(SubSeq(s, 1, Len(s) - 1)) ELSE s

\* String.prototype.trim
Trim(s) == TrimEnd(TrimStart(s))

UpperLetters ==
    <<"A", "B", "C", "D", "E", "F", "G", "H", "I", "J", "K", "L", "M",
      "N", "O", "P", "Q", "R", "S", "T", "U", "V", "W", "X", "Y", "Z">>

LowerLetters ==
    <<"a", "b", "c", "d", "e", "f", "g", "h", "i", "j", "k", "l", "m",
      "n", "o", "p", "q", "r", "s", "t", "u", "v", "w", "x", "y", "z">>

LowerChar(c) ==
    IF c \in Range(UpperLetters)
    THEN LowerLetters[CHOOSE i \in 1..Len(UpperLetters) : UpperLetters[i] = c]
    ELSE c

\* String.prototype.toLowerCase
ToLowerCase(s) == [i \in 1..Len(s) |-> LowerChar(s[i])]

\* String.prototype.includes
Includes(val, target) ==
    \E i \in 0..(Len(val) - Len(target)) : SubSeq(val, i + 1, i + Len(target)) = target

\* String.prototype.startsWith
StartsWith(val, target) ==
    /\ Len(target) <= Len(val)
    /\ SubSeq(val, 1, Len(target)) = target

\* Array.prototype.join
RECURSIVE Join(_, _)
Join(parts, sep) ==
    IF parts = <<>> THEN <<>>
    ELSE IF Len(parts) = 1 THEN parts[1]
    ELSE parts[1] \o sep \o Join(Tail(parts), sep)

\* String(v ?? "")
StringOrEmpty(v) == IF v = Undefined THEN <<>> ELSE v

\* ------------------------------------------------------------ numbers
NaN == [nan |-> TRUE, n |-> 0]

Num(k) == [nan |-> FALSE, n |-> k]

IsDigit(c) == c \in {"0", "1", "2", "3", "4", "5", "6", "7", "8", "9"}

DigitVal(c) ==
    CASE c = "0" -> 0 [] c = "1" -> 1 [] c = "2" -> 2 [] c = "3" -> 3 [] c = "4" -> 4
      [] c = "5" -> 5 [] c = "6" -> 6 [] c = "7" -> 7 [] c = "8" -> 8 [] c = "9" -> 9

RECURSIVE DecimalVal(_)
DecimalVal(s) ==
    IF s = <<>> THEN 0 ELSE 10 * DecimalVal(SubSeq(s, 1, Len(s) - 1)) + DigitVal(s[Len(s)])

AllDigits(t) == t # <<>> /\ \A i \in 1..Len(t) : IsDigit(t[i])

\* Number(v) for v undefined or a string with no ".", no exponent, no radix
\* prefix and no "Infinity": undefined is NaN, a blank string is 0, a digit
\* string its value, a "-" and a digit string the negated value, the rest NaN
ToNumber(v) ==
    IF v = Undefined THEN NaN
    ELSE LET t == Trim(v) IN
         IF t = <<>> THEN Num(0)
         ELSE IF AllDigits(t) THEN Num(DecimalVal(t))
         ELSE IF t[1] = "-" /\ AllDigits(Tail(t)) THEN Num(0 - DecimalVal(Tail(t)))
         ELSE NaN

Min(a, b) == IF a < b THEN a ELSE b

NumGt(x, y) == ~x.nan /\ ~y.nan /\ x.n > y.n

NumLt(x, y) == ~x.nan /\ ~y.nan /\ x.n < y.n

\* NaN compared as if it were 0
NumGteNaNAsZero(x, y) == x.n >= y.n

NumGte(x, y) == ~x.nan /\ ~y.nan /\ x.n >= y.n

NumLte(x, y) == ~x.nan /\ ~y.nan /\ x.n <= y.n

\* ------------------------------------------------------------ records
ColA == <<"a">>

ColB == <<"b">>

ColC == <<"c">>

\* row[c]
Get(row, c) == IF c \in DOMAIN row THEN row[c] ELSE Undefined

Operators == {"equals", "contains", "starts_with", "gt", "lt", "gte", "lte"}

\* an operator the switch does not know
UnknownOperator == "ne"

\* the relational operators reading the coalesced string, as the others do
FilterMatchCoalesced(row, filter) ==
    LET val == ToLowerCase(StringOrEmpty(Get(row, filter.column)))
        target == ToLowerCase(filter.value)
    IN CASE filter.operator = "equals" -> val = target
         [] filter.operator = "contains" -> Includes(val, target)
         [] filter.operator = "starts_with" -> StartsWith(val, target)
         [] filter.operator = "gt" -> NumGt(ToNumber(val), ToNumber(filter.value))
         [] filter.operator = "lt" -> NumLt(ToNumber(val), ToNumber(filter.value))
         [] filter.operator = "gte" -> NumGte(ToNumber(val), ToNumber(filter.value))
         [] filter.operator = "lte" -> NumLte(ToNumber(val), ToNumber(filter.value))
         [] OTHER -> TRUE

\* the arrow function given to rows.filter
FilterMatch(row, filter) ==
    LET val == ToLowerCase(StringOrEmpty(Get(row, filter.column)))
        target == ToLowerCase(filter.value)
    IN CASE filter.operator = "equals" -> val = target
         [] filter.operator = "contains" -> Includes(val, target)
         [] filter.operator = "starts_with" -> StartsWith(val, target)
         [] filter.operator = "gt" ->
                NumGt(ToNumber(Get(row, filter.column)), ToNumber(filter.value))
         [] filter.operator = "lt" ->
                NumLt(ToNumber(Get(row, filter.column)), ToNumber(filter.value))
         [] filter.operator = "gte" ->
                NumGte(ToNumber(Get(row, filter.column)), ToNumber(filter.value))
         [] filter.operator = "lte" ->
                NumLte(ToNumber(Get(row, filter.column)), ToNumber(filter.value))
         [] OTHER -> TRUE

\* rows.map in place of rows.filter: a matching row is cut down to the filter's column
FilterRowsAsMap(rows, filter) ==
    LET kept == SelectSeq(rows, LAMBDA row : FilterMatch(row, filter))
    IN [i \in 1..Len(kept) |-> [c \in {filter.column} |-> Get(kept[i], c)]]

\* rows.filter((row) => ...) for one filter
FilterRows(rows, filter) == SelectSeq(rows, LAMBDA row : FilterMatch(row, filter))

\* every filter run on the fetched rows instead of the surviving ones: the last one wins
ApplyFiltersLastWins(rows, filters) ==
    IF filters = <<>> THEN rows ELSE FilterRows(rows, filters[Len(filters)])

\* for (const filter of plan.filters) rows = rows.filter(...)
RECURSIVE ApplyFilters(_, _)
ApplyFilters(rows, filters) ==
    IF filters = <<>> THEN rows
    ELSE ApplyFilters(FilterRows(rows, Head(filters)), Tail(filters))

\* the record built for one row by the projection
ProjectRow(row, columns) == [c \in Range(columns) |-> Get(row, c)]

\* if (plan.columns?.length) rows = rows.map(...)
ProjectRows(rows, plan) ==
    IF "columns" \in DOMAIN plan /\ Len(plan.columns) # 0
    THEN [i \in 1..Len(rows) |-> ProjectRow(rows[i], plan.columns)]
    ELSE rows

\* the projection done before the filter loop
SurvivorsProjectFirst(rows, plan) == ApplyFilters(ProjectRows(rows, plan), plan.filters)

\* the body of the loop over dataset ids, after the fetch
Survivors(rows, plan) == ProjectRows(ApplyFilters(rows, plan.filters), plan)

\* ------------------------------------------------------- the CSV parser
\* content.split(/\r?\n/): a line ends at "\n", and an "\r" right before it goes too
StripCR(line) ==
    IF line # <<>> /\ line[Len(line)] = "\r" THEN SubSeq(line, 1, Len(line) - 1) ELSE line

\* the pieces of a text between its line feeds: the pieces of its two halves,
\* the last of the left joined to the first of the right
RECURSIVE Pieces(_)
Pieces(text) ==
    IF Len(text) = 0 THEN << <<>> >>
    ELSE IF Len(text) = 1 THEN (IF text[1] = "\n" THEN << <<>>, <<>> >> ELSE <<text>>)
    ELSE LET half == Len(text) \div 2
             l == Pieces(SubSeq(text, 1, half))
             r == Pieces(SubSeq(text, half + 1, Len(text)))
         IN SubSeq(l, 1, Len(l) - 1) \o <<l[Len(l)] \o r[1]>> \o Tail(r)

SplitLines(content) ==
    LET pieces == Pieces(content) IN
    [k \in 1..Len(pieces) |->
        IF k < Len(pieces) THEN StripCR(pieces[k]) ELSE pieces[k]]

\* the blank lines kept
LinesUnfiltered(content) == SplitLines(content)

\* content.split(/\r?\n/).filter((l) => l.trim() !== "")
NonBlankLines(content) == SelectSeq(SplitLines(content), LAMBDA l : Trim(l) # <<>>)

\* the for loop of parseLine from position i, and the push after it
RECURSIVE ParseLineFrom(_, _, _, _, _)
ParseLineFrom(line, i, current, inQuotes, result) ==
    IF i > Len(line) THEN Append(result, Trim(current))
    ELSE IF line[i] = "\""
         THEN IF inQuotes /\ i + 1 <= Len(line) /\ line[i + 1] = "\""
              THEN ParseLineFrom(line, i + 2, Append(current, "\""), inQuotes, result)
              ELSE ParseLineFrom(line, i + 1, current, ~inQuotes, result)
         ELSE IF line[i] = "," /\ ~inQuotes
              THEN ParseLineFrom(line, i + 1, <<>>, inQuotes, Append(result, Trim(current)))
              ELSE ParseLineFrom(line, i + 1, Append(current, line[i]), inQuotes, result)

\* the scan started with inQuotes true
ParseLineQuotesOpen(line) == ParseLineFrom(line, 1, <<>>, TRUE, <<>>)

\* const parseLine = (line: string): string[]: let inQuotes = false
ParseLine(line) == ParseLineFrom(line, 1, <<>>, FALSE, <<>>)

\* values[idx] ?? ""
ValueAt(values, idx) == IF idx <= Len(values) THEN values[idx] ELSE <<>>

\* headers.forEach((h, idx) => { row[h] = values[idx] ?? "" }) after n headers:
\* a later assignment to the same key replaces the earlier one
RECURSIVE RowAfter(_, _, _)
RowAfter(headers, values, n) ==
    IF n = 0 THEN [h \in {} |-> <<>>]
    ELSE (headers[n] :> ValueAt(values, n)) @@ RowAfter(headers, values, n - 1)

\* an assignment to a key the row already has is skipped
BuildRowFirstWins(headers, values) ==
    [h \in Range(headers) |->
        ValueAt(values, CHOOSE i \in 1..Len(headers) :
            /\ headers[i] = h
            /\ \A j \in 1..(i - 1) : headers[j] # h)]

BuildRow(headers, values) == RowAfter(headers, values, Len(headers))

\* ---------------------------------------------------------- detectType
\* new Set(["true", "false", "yes", "no", "1", "0"])
BoolValues ==
    {<<"t", "r", "u", "e">>, <<"f", "a", "l", "s", "e">>, <<"y", "e", "s">>,
     <<"n", "o">>, <<"1">>, <<"0">>}

\* values.filter((v) => v.trim() !== "")
NonEmptyValues(values) == SelectSeq(values, LAMBDA v : Trim(v) # <<>>)

\* nonEmpty.every((v) => boolValues.has(v.toLowerCase()))
AllBoolean(nonEmpty) ==
    \A i \in 1..Len(nonEmpty) : ToLowerCase(nonEmpty[i]) \in BoolValues

\* nonEmpty.every((v) => !isNaN(Number(v)) && v.trim() !== "")
AllNumber(nonEmpty) ==
    \A i \in 1..Len(nonEmpty) :
        ~ToNumber(nonEmpty[i]).nan /\ Trim(nonEmpty[i]) # <<>>

\* v has digits at the k positions from..from+k-1
DigitsAt(v, from, k) ==
    /\ from + k - 1 <= Len(v)
    /\ \A i \in from..(from + k - 1) : IsDigit(v[i])

CharAt(v, i, c) == i <= Len(v) /\ v[i] = c

\* /^\d{4}-\d{2}-\d{2}/
MatchesIso(v) ==
    /\ DigitsAt(v, 1, 4)
    /\ CharAt(v, 5, "-")
    /\ DigitsAt(v, 6, 2)
    /\ CharAt(v, 8, "-")
    /\ DigitsAt(v, 9, 2)

\* /^\d{1,2}SEP\d{1,2}SEP\d{2,4}/: the pattern is not anchored at the end, so
\* two digits of the last group are enough
MatchesSeparated(v, sep) ==
    \E a \in 1..2, b \in 1..2 :
        /\ DigitsAt(v, 1, a)
        /\ CharAt(v, a + 1, sep)
        /\ DigitsAt(v, a + 2, b)
        /\ CharAt(v, a + b + 2, sep)
        /\ DigitsAt(v, a + b + 3, 2)

\* datePatterns.some((p) => p.test(v))
MatchesDate(v) ==
    MatchesIso(v) \/ MatchesSeparated(v, "/") \/ MatchesSeparated(v, "-")

\* nonEmpty.filter((v) => datePatterns.some((p) => p.test(v))).length
DateCount(nonEmpty) ==
    Cardinality({i \in 1..Len(nonEmpty) : MatchesDate(nonEmpty[i])})

\* The literal 0.7 is the double 0x16666666666666 * 2^-53.  A double that
\* is a multiple of 2^-53 is kept as three limbs: hi * 2^40 + mid * 2^20 + lo,
\* in units of 2^-53.
Limb == 1048576

PointSevenHi == 5734

PointSevenMid == 419430

PointSevenLo == 419430

RECURSIVE BitLength(_)
BitLength(k) == IF k = 0 THEN 0 ELSE 1 + BitLength(k \div 2)

\* n * 0.7 in double arithmetic, for an integer n below 5000: the exact product,
\* rounded to a significand of 53 bits, ties to the even significand
TimesPointSeven(n) ==
    LET p0 == n * PointSevenLo
        p1 == n * PointSevenMid + (p0 \div Limb)
        hi == n * PointSevenHi + (p1 \div Limb)
        mid == p1 % Limb
        lo == p0 % Limb
        bits == 40 + BitLength(hi)
        s == IF bits > 53 THEN bits - 53 ELSE 0
        r == lo % (2 ^ s)
        up == /\ s > 0
              /\ \/ 2 * r > 2 ^ s
                 \/ 2 * r = 2 ^ s /\ (lo \div (2 ^ s)) % 2 = 1
        lo2 == lo - r + (IF up THEN 2 ^ s ELSE 0)
        mid2 == mid + (lo2 \div Limb)
    IN [hi |-> hi + (mid2 \div Limb), mid |-> mid2 % Limb, lo |-> lo2 % Limb]

\* more than half of the values
ExceedsHalf(m, n) == 2 * m > n

\* count > nonEmpty.length * 0.7: the integer m is m * 2^13 * 2^40 units, and the
\* lower limbs of the product are below 2^40
ExceedsThreshold(m, n) == m * (2 ^ 13) > TimesPointSeven(n).hi

\* the number rule tried before the boolean rule
DetectTypeNumberFirst(values) ==
    LET nonEmpty == NonEmptyValues(values) IN
    IF Len(nonEmpty) = 0 THEN "string"
    ELSE IF AllNumber(nonEmpty) THEN "number"
    ELSE IF AllBoolean(nonEmpty) THEN "boolean"
    ELSE IF ExceedsThreshold(DateCount(nonEmpty), Len(nonEmpty)) THEN "date"
    ELSE "string"

DetectType(values) ==
    LET nonEmpty == NonEmptyValues(values) IN
    IF Len(nonEmpty) = 0 THEN "string"
    ELSE IF AllBoolean(nonEmpty) THEN "boolean"
    ELSE IF AllNumber(nonEmpty) THEN "number"
    ELSE IF ExceedsThreshold(DateCount(nonEmpty), Len(nonEmpty)) THEN "date"
    ELSE "string"

EmptyFileText == "CSV file is empty"

NoHeadersText == "CSV must have headers"

\* Math.min(rows.length, 100)
SampleRows == 100

\* sampleValues.slice(0, 5)
SampleValuesKept == 5

\* every row sampled
SampleSizeAll(n) == n

SampleSize(n) == Min(n, SampleRows)

\* the ColumnInfo that headers.map builds for a header name
ColumnInfo(rows, name) ==
    LET sampleValues ==
            [j \in 1..SampleSize(Len(rows)) |-> StringOrEmpty(Get(rows[j], name))]
    IN [name |-> name,
        detectedType |-> DetectType(sampleValues),
        sampleValues |-> SubSeq(sampleValues, 1, Min(Len(sampleValues), SampleValuesKept))]

\* parseCSVContent: the result, or the error thrown
ParseCSVContent(content) ==
    LET lines == NonBlankLines(content) IN
    IF Len(lines) = 0 THEN [ok |-> FALSE, error |-> EmptyFileText]
    ELSE LET headers == ParseLine(lines[1]) IN
         IF Len(headers) = 0 \/ \A i \in 1..Len(headers) : headers[i] = <<>>
         THEN [ok |-> FALSE, error |-> NoHeadersText]
         ELSE LET rows == [i \in 1..(Len(lines) - 1) |->
                              BuildRow(headers, ParseLine(lines[i + 1]))]
              IN [ok |-> TRUE,
                  headers |-> headers,
                  rows |-> rows,
                  columns |-> [i \in 1..Len(headers) |-> ColumnInfo(rows, headers[i])],
                  totalRows |-> Len(rows)]

\* --------------------------------------------------- generateCSVContent
\* `"${c}"`
Quoted(c) == <<"\"">> \o c \o <<"\"">>

\* val.replace(/"/g, '""')
RECURSIVE DoubleQuotes(_)
DoubleQuotes(val) ==
    IF val = <<>> THEN <<>>
    ELSE (IF Head(val) = "\"" THEN <<"\"", "\"">> ELSE <<Head(val)>>) \o DoubleQuotes(Tail(val))

\* cols.map((c) => `"${c}"`).join(",")
HeaderLine(cols) == Join([i \in 1..Len(cols) |-> Quoted(cols[i])], <<",">>)

\* cols.map((c) => { const val = String(row[c] ?? ""); ... }).join(",")
DataLine(row, cols) ==
    Join([i \in 1..Len(cols) |-> Quoted(DoubleQuotes(StringOrEmpty(Get(row, cols[i]))))],
         <<",">>)

\* generateCSVContent(rows, cols), cols being columns ?? Object.keys(rows[0])
GenerateCSVContent(rows, cols) ==
    IF Len(rows) = 0 THEN <<>>
    ELSE Join(<<HeaderLine(cols)>> \o [j \in 1..Len(rows) |-> DataLine(rows[j], cols)],
              <<"\n">>)

\* ------------------------------------- the library functions on their own
LibraryIdle ==
    /\ arg = <<>>
    /\ ret = <<>>
    /\ lpc = "off"

\* ------------------------------------------------------ the upload page
NoFile == [present |-> FALSE, content |-> <<>>]

NoParsed == [present |-> FALSE]

UploadIdle ==
    /\ file = NoFile
    /\ parsed = NoParsed
    /\ status = "idle"
    /\ error = ""
    /\ upc = "off"
    /\ datasetName = <<>>
    /\ datasets = <<>>
    /\ dsid = 0
    /\ ipos = 0

UploadInit ==
    /\ file = NoFile
    /\ parsed = NoParsed
    /\ status = "idle"
    /\ error = ""
    /\ upc = "idle"
    /\ datasetName = <<>>
    /\ datasets = <<>>
    /\ dsid = 0
    /\ ipos = 0

CsvAlphabet == {"a", ",", "\"", " ", "\n", "\r"}

FieldTokens == {<<>>, <<"a">>, <<"b">>}

FieldLines == {Join(fs, <<",">>) : fs \in SeqsUpTo(FieldTokens, MaxFields) \ {<<>>}}

\* row counts around the two sample sizes of parseCSVContent
HeadCounts == {k + d : k \in {SampleValuesKept, SampleRows}, d \in {0 - 1, 0, 1}}

\* the header line a,b, then n lines c,7, then m lines d,x: every line has
\* three characters and every line but the last a line feed after it
LongContent(n, c, m, d) ==
    LET lines == << <<"a", ",", "b">> >>
                    \o [j \in 1..n |-> c \o <<",", "7">>]
                    \o [j \in 1..m |-> d \o <<",", "x">>]
    IN [p \in 1..(4 * Len(lines) - 1) |->
           IF p % 4 = 0 THEN "\n" ELSE lines[(p - 1) \div 4 + 1][p % 4]]

LongContents ==
    {LongContent(n, c, m, d) :
        n \in HeadCounts, m \in 0..1, c \in {<<"1">>, <<"x">>}, d \in {<<"1">>, <<"x">>}}

Contents ==
    StringsUpTo(CsvAlphabet, MaxContentLen)
    \cup {Join(ls, <<"\n">>) : ls \in SeqsUpTo(FieldLines, MaxLines) \ {<<>>}}
    \cup LongContents

\* f.name.replace(/\.csv$/i, "") of the files dropped
BaseName == <<"d">>

\* handleFile with a name that does not end in .csv
HandleFileRejected ==
    /\ UNCHANGED <<fvars, qvars, lvars>>
    /\ upc = "idle"
    /\ status = "idle"
    /\ error' = "Only CSV files are supported"
    /\ UNCHANGED <<file, parsed, status, upc, datasetName, datasets, dsid, ipos>>

\* handleFile with a .csv file, up to reader.readAsText
HandleFile ==
    /\ UNCHANGED <<fvars, qvars, lvars>>
    /\ upc = "idle"
    /\ status = "idle"
    /\ \E content \in Contents : file' = [present |-> TRUE, content |-> content]
    /\ datasetName' = BaseName
    /\ error' = ""
    /\ upc' = "reading"
    /\ UNCHANGED <<parsed, status, datasets, dsid, ipos>>

\* reader.onload
FileLoaded ==
    /\ UNCHANGED <<fvars, qvars, lvars>>
    /\ upc = "reading"
    /\ LET result == ParseCSVContent(file.content) IN
       IF result.ok
       THEN /\ parsed' = [present |-> TRUE, headers |-> result.headers,
                          rows |-> result.rows, columns |-> result.columns,
                          totalRows |-> result.totalRows]
            /\ status' = "previewing"
            /\ error' = error
       ELSE /\ error' = result.error
            /\ status' = "error"
            /\ parsed' = parsed
    /\ upc' = "idle"
    /\ file' = file
    /\ UNCHANGED <<datasetName, datasets, dsid, ipos>>

\* reset (the X, Cancel, Upload Another and Try Again buttons)
Reset ==
    /\ UNCHANGED <<fvars, qvars, lvars>>
    /\ upc = "idle"
    /\ status \in {"previewing", "complete", "error"}
    /\ file' = NoFile
    /\ parsed' = NoParsed
    /\ datasetName' = <<>>
    /\ status' = "idle"
    /\ error' = ""
    /\ upc' = upc
    /\ UNCHANGED <<datasets, dsid, ipos>>

UploadNext ==
    \/ HandleFileRejected
    \/ HandleFile
    \/ FileLoaded
    \/ Reset

\* ----------------------------------------------------------- handleImport
\* const batchSize = 500
BatchSize == 500

\* err.message of a store error
StoreErrorText == "store error"

\* files of no rows, of one full batch, and of a batch and a row
ImportRowCounts == {0, BatchSize, BatchSize + 1}

Digits == <<"0", "1", "2", "3", "4", "5", "6", "7", "8", "9">>

\* the four digits of j
Numbered(j) ==
    <<Digits[((j \div 1000) % 10) + 1], Digits[((j \div 100) % 10) + 1],
      Digits[((j \div 10) % 10) + 1], Digits[(j % 10) + 1]>>

\* the header line rows and n data lines 0001, 0002, ...: every line has four
\* characters and every line but the last a line feed after it
NumberedContent(n) ==
    LET lines == << <<"r", "o", "w", "s">> >> \o [j \in 1..n |-> Numbered(j)]
    IN [p \in 1..(5 * Len(lines) - 1) |->
           IF p % 5 = 0 THEN "\n" ELSE lines[(p - 1) \div 5 + 1][p % 5]]

\* handleFile with one of these files, up to reader.readAsText
HandleBigFile ==
    /\ UNCHANGED <<fvars, qvars, lvars>>
    /\ upc = "idle"
    /\ status = "idle"
    /\ \E n \in ImportRowCounts :
          file' = [present |-> TRUE, content |-> NumberedContent(n)]
    /\ datasetName' = BaseName
    /\ error' = ""
    /\ upc' = "reading"
    /\ UNCHANGED <<parsed, status, datasets, dsid, ipos>>

\* onChange of the dataset name field
TypeName ==
    /\ UNCHANGED <<fvars, qvars, lvars>>
    /\ upc = "idle"
    /\ status = "previewing"
    /\ \E name \in {<<>>, <<" ">>, <<"e">>} : datasetName' = name
    /\ UNCHANGED <<file, parsed, status, error, upc, datasets, dsid, ipos>>

\* handleImport up to the await of the datasets insert
HandleImport ==
    /\ UNCHANGED <<fvars, qvars, lvars>>
    /\ upc = "idle"
    /\ status = "previewing"
    /\ ~(~parsed.present \/ Trim(datasetName) = <<>>)
    /\ Len(datasets) < MaxImports
    /\ status' = "importing"
    /\ upc' = "insertDataset"
    /\ dsid' = 0
    /\ ipos' = 0
    /\ UNCHANGED <<file, parsed, error, datasetName, datasets>>

\* the loop test i < parsed.rows.length: the next await is a batch insert, or the
\* status update when the loop is over
AfterBatches(i) == IF i < Len(parsed.rows) THEN "insertBatch" ELSE "updateStatus"

\* catch of handleImport
FailImport ==
    /\ error' = StoreErrorText
    /\ status' = "error"
    /\ toast' = "Import failed"
    /\ upc' = "idle"

\* the datasets insert answers with the new row
DatasetInserted ==
    /\ UNCHANGED <<fvars, lvars>>
    /\ upc = "insertDataset"
    /\ datasets' = Append(datasets, [row_count |-> parsed.totalRows, status |-> "processing"])
    /\ records' = Append(records, <<>>)
    /\ dsid' = Len(datasets) + 1
    /\ ipos' = 0
    /\ upc' = AfterBatches(0)
    /\ UNCHANGED <<file, parsed, status, error, datasetName, qrest>>

\* the datasets insert answers with an error
DatasetInsertFails ==
    /\ UNCHANGED <<fvars, lvars>>
    /\ upc = "insertDataset"
    /\ FailImport
    /\ UNCHANGED <<file, parsed, datasetName, datasets, dsid, ipos, records>>
    /\ UNCHANGED <<messages, input, isLoading, qpc, userMsg, response, qidx,
                   allResults, issued, fetched>>

\* parsed.rows.slice(i, i + batchSize)
Batch(i) == SubSeq(parsed.rows, i + 1, Min(i + BatchSize, Len(parsed.rows)))

\* the insert of the batch at i answers without error
BatchInserted ==
    /\ UNCHANGED <<fvars, lvars>>
    /\ upc = "insertBatch"
    /\ records' = [records EXCEPT ![dsid] = @ \o Batch(ipos)]
    /\ ipos' = ipos + BatchSize
    /\ upc' = AfterBatches(ipos + BatchSize)
    /\ UNCHANGED <<file, parsed, status, error, datasetName, datasets, dsid, qrest>>

\* an error of a batch insert not thrown: the loop goes on
BatchInsertFailsIgnored ==
    /\ UNCHANGED <<fvars, lvars>>
    /\ upc = "insertBatch"
    /\ ipos' = ipos + BatchSize
    /\ upc' = AfterBatches(ipos + BatchSize)
    /\ UNCHANGED <<file, parsed, status, error, datasetName, datasets, dsid, records, qrest>>

\* the insert of the batch at i answers with an error: nothing of it is stored
BatchInsertFails ==
    /\ UNCHANGED <<fvars, lvars>>
    /\ upc = "insertBatch"
    /\ FailImport
    /\ UNCHANGED <<file, parsed, datasetName, datasets, dsid, ipos, records>>
    /\ UNCHANGED <<messages, input, isLoading, qpc, userMsg, response, qidx,
                   allResults, issued, fetched>>

\* after the await of the status update, whose result is not read
FinishImport ==
    /\ status' = "complete"
    /\ toast' = "Import complete"
    /\ upc' = "idle"
    /\ UNCHANGED <<file, parsed, error, datasetName, dsid, ipos, records>>
    /\ UNCHANGED <<messages, input, isLoading, qpc, userMsg, response, qidx,
                   allResults, issued, fetched>>

\* the status update answers without error
StatusUpdated ==
    /\ UNCHANGED <<fvars, lvars>>
    /\ upc = "updateStatus"
    /\ datasets' = [datasets EXCEPT ![dsid].status = "complete"]
    /\ FinishImport

\* the status update answers with an error
StatusUpdateFails ==
    /\ UNCHANGED <<fvars, lvars>>
    /\ upc = "updateStatus"
    /\ datasets' = datasets
    /\ FinishImport

ImportNext ==
    \/ HandleBigFile
    \/ FileLoaded
    \/ TypeName
    \/ Reset
    \/ HandleImport
    \/ DatasetInserted
    \/ DatasetInsertFails
    \/ BatchInserted
    \/ BatchInsertFails
    \/ StatusUpdated
    \/ StatusUpdateFails

\* ------------------------------------------------------ the query page
DefaultLimit == 200

ServeDefaultLimit == 200

\* message texts
LLMText == <<"o", "k">>

QueryingText == <<"Q", "u", "e", "r", "y", "i", "n", "g">>

RephraseText == <<"r", "e", "p", "h", "r", "a", "s", "e">>

SorryText == <<"S", "o", "r", "r", "y">>

FoundText(n) == <<"F", "o", "u", "n", "d", n>>

NoResponse == [message |-> <<>>]

QueryIdle ==
    /\ records = <<>>
    /\ messages = <<>>
    /\ input = <<>>
    /\ isLoading = FALSE
    /\ toast = "none"
    /\ qpc = "off"
    /\ userMsg = <<>>
    /\ response = NoResponse
    /\ qidx = 0
    /\ allResults = <<>>
    /\ issued = <<>>
    /\ fetched = <<>>

\* the records table of the store: 3 records of dataset A, 2 of dataset B
StoredRecord(va, vb) == (ColA :> va) @@ (ColB :> vb)

StoredRecords ==
    [ A |-> << StoredRecord(<<"1">>, <<"a">>), StoredRecord(<<"a">>, <<"1">>),
               StoredRecord(<<"1">>, <<"1">>) >>,
      B |-> << StoredRecord(<<"a">>, <<"a">>), StoredRecord(<<"1">>, <<"a">>) >> ]

DatasetIds == {"A", "B"}

\* what the user can type
Inputs == {<<>>, <<" ">>, <<" ", "q">>}

\* the arguments of the model's create_query_plan tool call
PlanFilters == {<<>>, <<[column |-> ColB, operator |-> "equals", value |-> <<"1">>]>>}

ToolArgs ==
    LET base == {[dataset_ids |-> ids, filters |-> F] :
                    ids \in SeqsUpTo(DatasetIds, MaxDatasets), F \in PlanFilters}
        withColumns == {[dataset_ids |-> x.dataset_ids, filters |-> x.filters,
                         columns |-> <<ColA>>] : x \in base}
        some == base \cup withColumns
        withLimit == {[k \in DOMAIN x \cup {"limit"} |->
                          IF k = "limit" THEN 2 ELSE x[k]] : x \in some}
    IN some \cup withLimit

\* choices[0].message of the gateway's reply: text, and the tool call's arguments if
\* the model made one
Choices ==
    {[content |-> t] : t \in {<<>>, LLMText}}
    \cup {[content |-> <<>>, args |-> x] : x \in ToolArgs}
    \cup {[content |-> LLMText, args |-> x] : x \in {y \in ToolArgs : Len(y.dataset_ids) <= 1}}

\* args.limit ?? 200
ServeLimit(args) == IF "limit" \in DOMAIN args THEN args.limit ELSE ServeDefaultLimit

\* the body the edge function answers with (JSON drops an undefined columns)
ServeResponse(choice) ==
    IF "args" \in DOMAIN choice
    THEN LET args == choice.args
             plan == [dataset_ids |-> args.dataset_ids, filters |-> args.filters,
                      limit |-> ServeLimit(args)]
         IN [message |-> IF choice.content # <<>> THEN choice.content ELSE QueryingText,
             queryPlan |-> IF "columns" \in DOMAIN args
                           THEN [k \in DOMAIN plan \cup {"columns"} |->
                                    IF k = "columns" THEN args.columns ELSE plan[k]]
                           ELSE plan]
    ELSE [message |-> IF choice.content # <<>> THEN choice.content ELSE RephraseText]

\* plan.limit ?? 200
EffectiveLimit(plan) == IF "limit" \in DOMAIN plan THEN plan.limit ELSE DefaultLimit

\* the accumulator replaced by the rows of the last dataset
AccumulateLastOnly(all, rows) == rows

\* allResults = [...allResults, ...rows]
Accumulate(all, rows) == all \o rows

\* the limit not applied to the select
SelectRecordsUnlimited(id, limit) == IF id \in DOMAIN records THEN records[id] ELSE <<>>

\* from("records").select("data").eq("dataset_id", id).limit(limit), answered
SelectRecords(id, limit) ==
    LET all == IF id \in DOMAIN records THEN records[id] ELSE <<>>
    IN SubSeq(all, 1, Min(limit, Len(all)))

QueryInit ==
    /\ records = StoredRecords
    /\ messages = <<>>
    /\ input = <<>>
    /\ isLoading = FALSE
    /\ toast = "none"
    /\ qpc = "idle"
    /\ userMsg = <<>>
    /\ response = NoResponse
    /\ qidx = 0
    /\ allResults = <<>>
    /\ issued = <<>>
    /\ fetched = <<>>

\* onChange of the text field (disabled while loading)
TypeInput ==
    /\ UNCHANGED <<fvars, uvars, lvars>>
    /\ qpc # "off"
    /\ ~isLoading
    /\ \E text \in Inputs : input' = text
    /\ UNCHANGED <<records, messages, isLoading, toast, qpc, userMsg, response, qidx,
                   allResults, issued, fetched>>

\* sendMessage with a blank input or while loading: the early return
SendMessageIgnored ==
    /\ UNCHANGED <<fvars, uvars, lvars>>
    /\ qpc # "off"
    /\ Trim(input) = <<>> \/ isLoading
    /\ UNCHANGED qvars

\* sendMessage without its setIsLoading(true)
SendMessageNoLoading ==
    /\ UNCHANGED <<fvars, uvars, lvars>>
    /\ qpc = "idle"
    /\ ~(Trim(input) = <<>> \/ isLoading)
    /\ Len(messages) < 2 * MaxTurns
    /\ userMsg' = Trim(input)
    /\ messages' = Append(messages, [role |-> "user", content |-> Trim(input)])
    /\ input' = <<>>
    /\ qpc' = "datasets"
    /\ response' = NoResponse
    /\ qidx' = 0
    /\ allResults' = <<>>
    /\ issued' = <<>>
    /\ fetched' = <<>>
    /\ UNCHANGED <<records, toast, isLoading>>

\* sendMessage up to the await of the datasets select
SendMessage ==
    /\ UNCHANGED <<fvars, uvars, lvars>>
    /\ qpc = "idle"
    /\ ~(Trim(input) = <<>> \/ isLoading)
    /\ Len(messages) < 2 * MaxTurns
    /\ userMsg' = Trim(input)
    /\ messages' = Append(messages, [role |-> "user", content |-> Trim(input)])
    /\ input' = <<>>
    /\ isLoading' = TRUE
    /\ qpc' = "datasets"
    /\ response' = NoResponse
    /\ qidx' = 0
    /\ allResults' = <<>>
    /\ issued' = <<>>
    /\ fetched' = <<>>
    /\ UNCHANGED <<records, toast>>

\* the datasets select answers (its error is not read); functions.invoke is called
DatasetsListed ==
    /\ UNCHANGED <<fvars, uvars, lvars>>
    /\ qpc = "datasets"
    /\ qpc' = "planner"
    /\ UNCHANGED <<records, messages, input, isLoading, toast, userMsg, response, qidx,
                   allResults, issued, fetched>>

\* a catch that keeps what was accumulated
FailTurnPartialResults ==
    /\ toast' = "Query failed"
    /\ messages' = Append(messages, [role |-> "assistant", content |-> SorryText,
                                     results |-> allResults])
    /\ isLoading' = FALSE
    /\ qpc' = "idle"

\* catch and finally of sendMessage
FailTurn ==
    /\ toast' = "Query failed"
    /\ messages' = Append(messages, [role |-> "assistant", content |-> SorryText])
    /\ isLoading' = FALSE
    /\ qpc' = "idle"

\* the assistant message of a turn whose plan was executed, and finally
FinishTurn(results) ==
    /\ messages' = Append(messages,
            [role |-> "assistant",
             content |-> IF response'.message # <<>> THEN response'.message
                         ELSE FoundText(Len(results)),
             results |-> results,
             queryPlan |-> response'.queryPlan])
    /\ isLoading' = FALSE
    /\ qpc' = "idle"
    /\ toast' = toast

\* functions.invoke answers with an error
PlannerFails ==
    /\ UNCHANGED <<fvars, uvars, lvars>>
    /\ qpc = "planner"
    /\ FailTurn
    /\ UNCHANGED <<records, input, userMsg, response, qidx, allResults, issued, fetched>>

\* a reply without a queryPlan shown with an empty result list
PlannerTalksWithResults ==
    /\ UNCHANGED <<fvars, uvars, lvars>>
    /\ qpc = "planner"
    /\ \E choice \in Choices :
          /\ "args" \notin DOMAIN choice
          /\ response' = ServeResponse(choice)
    /\ messages' = Append(messages, [role |-> "assistant", content |-> response'.message,
                                     results |-> <<>>])
    /\ isLoading' = FALSE
    /\ qpc' = "idle"
    /\ UNCHANGED <<records, input, toast, userMsg, qidx, allResults, issued, fetched>>

\* functions.invoke answers with a message and no queryPlan
PlannerTalks ==
    /\ UNCHANGED <<fvars, uvars, lvars>>
    /\ qpc = "planner"
    /\ \E choice \in Choices :
          /\ "args" \notin DOMAIN choice
          /\ response' = ServeResponse(choice)
    /\ messages' = Append(messages, [role |-> "assistant", content |-> response'.message])
    /\ isLoading' = FALSE
    /\ qpc' = "idle"
    /\ UNCHANGED <<records, input, toast, userMsg, qidx, allResults, issued, fetched>>

\* functions.invoke answers with a queryPlan: executeQueryPlan runs up to its first
\* fetch, or to its end when the plan names no dataset
PlannerPlans ==
    /\ UNCHANGED <<fvars, uvars, lvars>>
    /\ qpc = "planner"
    /\ \E choice \in Choices :
          /\ "args" \in DOMAIN choice
          /\ response' = ServeResponse(choice)
    /\ allResults' = <<>>
    /\ IF response'.queryPlan.dataset_ids = <<>>
       THEN /\ FinishTurn(<<>>)
            /\ UNCHANGED <<qidx, issued>>
       ELSE /\ qidx' = 1
            /\ issued' = << <<response'.queryPlan.dataset_ids[1],
                               EffectiveLimit(response'.queryPlan)>> >>
            /\ qpc' = "fetch"
            /\ UNCHANGED <<messages, isLoading, toast>>
    /\ UNCHANGED <<records, input, userMsg, fetched>>

\* the fetch of dataset qidx answers with data: the rest of the loop body, then the
\* next fetch or the end of executeQueryPlan and of the turn
FetchAnswers ==
    /\ UNCHANGED <<fvars, uvars, lvars>>
    /\ qpc = "fetch"
    /\ LET plan == response.queryPlan
           data == SelectRecords(plan.dataset_ids[qidx], EffectiveLimit(plan))
           all == Accumulate(allResults, Survivors(data, plan))
       IN /\ fetched' = Append(fetched, [error |-> FALSE, data |-> data])
          /\ allResults' = all
          /\ response' = response
          /\ IF qidx < Len(plan.dataset_ids)
             THEN /\ qidx' = qidx + 1
                  /\ issued' = Append(issued, <<plan.dataset_ids[qidx + 1],
                                                 EffectiveLimit(plan)>>)
                  /\ UNCHANGED <<messages, isLoading, toast, qpc>>
             ELSE /\ FinishTurn(all)
                  /\ UNCHANGED <<qidx, issued>>
    /\ UNCHANGED <<records, input, userMsg>>

\* the fetch of dataset qidx answers with an error: executeQueryPlan throws
FetchFails ==
    /\ UNCHANGED <<fvars, uvars, lvars>>
    /\ qpc = "fetch"
    /\ fetched' = Append(fetched, [error |-> TRUE, data |-> <<>>])
    /\ FailTurn
    /\ UNCHANGED <<records, input, userMsg, response, qidx, allResults, issued>>

Next ==
    \/ TypeInput
    \/ SendMessageIgnored
    \/ SendMessage
    \/ DatasetsListed
    \/ PlannerFails
    \/ PlannerTalks
    \/ PlannerPlans
    \/ FetchAnswers
    \/ FetchFails

\* ---------------------------------------- the filter engine on its own
FilterIdle ==
    /\ fRows = <<>>
    /\ fPlan = [filters |-> <<>>]
    /\ fFiltered = <<>>
    /\ fOut = <<>>
    /\ fpc = "off"

\* one record, one filter: every operator against every short value
PredAlphabet == {"a", "A", "1", " "}

PredValues == StringsUpTo(PredAlphabet, MaxValLen)

PredRecords == {[c \in {} |-> <<>>]} \cup {[c \in {ColA} |-> v] : v \in PredValues}

PredFilters ==
    {[column |-> ColA, operator |-> o, value |-> v] :
        o \in Operators \cup {UnknownOperator}, v \in PredValues}

PredInit ==
    /\ fRows \in {<<r>> : r \in PredRecords}
    /\ fPlan \in {[filters |-> <<f>>] : f \in PredFilters}
    /\ fFiltered = <<>>
    /\ fOut = <<>>
    /\ fpc = "ready"
    /\ QueryIdle
    /\ UploadIdle
    /\ LibraryIdle

\* row lists and filter lists
ListValues == {<<"1">>, <<"a">>}

ListRecords == [{ColA, ColB} -> ListValues]

ListFilters ==
    { [column |-> ColA, operator |-> "equals", value |-> <<"1">>],
      [column |-> ColA, operator |-> "contains", value |-> <<"a">>],
      [column |-> ColB, operator |-> "starts_with", value |-> <<"a">>],
      [column |-> ColB, operator |-> "lte", value |-> <<"1">>],
      [column |-> ColA, operator |-> UnknownOperator, value |-> <<"1">>],
      [column |-> ColB, operator |-> "equals", value |-> <<"A">>],
      [column |-> ColA, operator |-> "gt", value |-> <<>>],
      [column |-> ColB, operator |-> "gte", value |-> <<"a">>] }

ListColumns == {<<>>, <<ColA>>, <<ColB, ColC>>}

ListPlans ==
    {[filters |-> F] : F \in SeqsUpTo(ListFilters, MaxFilters)}
    \cup {[filters |-> F, columns |-> C] :
            F \in SeqsUpTo(ListFilters, MaxFilters), C \in ListColumns}

ListInit ==
    /\ fRows \in SeqsUpTo(ListRecords, MaxRows)
    /\ fPlan \in ListPlans
    /\ fFiltered = <<>>
    /\ fOut = <<>>
    /\ fpc = "ready"
    /\ QueryIdle
    /\ UploadIdle
    /\ LibraryIdle

\* the loop body of executeQueryPlan on the fetched rows
RunFilters ==
    /\ UNCHANGED <<qvars, uvars, lvars>>
    /\ fpc = "ready"
    /\ fFiltered' = ApplyFilters(fRows, fPlan.filters)
    /\ fOut' = Survivors(fRows, fPlan)
    /\ fpc' = "done"
    /\ UNCHANGED <<fRows, fPlan>>

FilterNext == RunFilters

SpecPred == PredInit /\ [][FilterNext]_vars

SpecFilter == ListInit /\ [][FilterNext]_vars

Init == QueryInit /\ FilterIdle /\ UploadIdle /\ LibraryIdle

Spec == Init /\ [][Next]_vars

\* every awaited call settles: the datasets select, functions.invoke and each
\* fetch answer, with data or with an error
Settles ==
    /\ WF_vars(DatasetsListed)
    /\ WF_vars(PlannerFails \/ PlannerTalks \/ PlannerPlans)
    /\ WF_vars(FetchAnswers \/ FetchFails)

SpecLive == Init /\ [][Next]_vars /\ Settles

InitUpload == UploadInit /\ QueryIdle /\ FilterIdle /\ LibraryIdle

SpecUpload == InitUpload /\ [][UploadNext]_vars

SpecImport == InitUpload /\ [][ImportNext]_vars

\* ------------------------------------------------ parseLine on its own
\* a,"b,c",d
ExampleQuotedComma == <<"a", ",", "\"", "b", ",", "c", "\"", ",", "d">>

\* a,"b""c",d
ExampleEscapedQuote == <<"a", ",", "\"", "b", "\"", "\"", "c", "\"", ",", "d">>

Lines ==
    StringsUpTo({"a", ",", "\"", " "}, MaxLineLen)
        \cup {ExampleQuotedComma, ExampleEscapedQuote}

LineInit ==
    /\ arg \in Lines
    /\ ret = <<>>
    /\ lpc = "ready"
    /\ QueryIdle
    /\ FilterIdle
    /\ UploadIdle

CallParseLine ==
    /\ UNCHANGED <<fvars, qvars, uvars>>
    /\ lpc = "ready"
    /\ ret' = ParseLine(arg)
    /\ lpc' = "done"
    /\ UNCHANGED arg

SpecLine == LineInit /\ [][CallParseLine]_vars

\* ----------------------------------------------- detectType on its own
IsoDate == <<"2", "0", "2", "4", "-", "0", "1", "-", "0", "1">>

DetectValues ==
    {<<>>, <<" ">>, <<"1">>, <<"0">>, <<"7">>, <<"-", "1">>, <<" ", "1">>,
     <<"t", "r", "u", "e">>, <<"N", "o">>, <<"x">>, IsoDate,
     <<"1", "/", "2", "/", "2", "4">>, <<"1", "-", "2", "-", "2", "4">>}

\* ["2024-01-01", "2024-02-02", "x"]
ExampleTwoOfThree ==
    <<IsoDate, <<"2", "0", "2", "4", "-", "0", "2", "-", "0", "2">>, <<"x">> >>

\* m values that match a date pattern, then k that do not
Mixed(m, k) == [i \in 1..(m + k) |-> IF i <= m THEN IsoDate ELSE <<"x">>]

Samples ==
    SeqsUpTo(DetectValues, MaxSample)
        \cup {ExampleTwoOfThree}
        \cup UNION {{Mixed(m, n - m) : m \in 0..n} : n \in 1..MaxMixed}

DetectInit ==
    /\ arg \in Samples
    /\ ret = ""
    /\ lpc = "ready"
    /\ QueryIdle
    /\ FilterIdle
    /\ UploadIdle

CallDetectType ==
    /\ UNCHANGED <<fvars, qvars, uvars>>
    /\ lpc = "ready"
    /\ ret' = DetectType(arg)
    /\ lpc' = "done"
    /\ UNCHANGED arg

SpecDetect == DetectInit /\ [][CallDetectType]_vars

\* --------------------------------------- generateCSVContent on its own
\* a plain column name and one that holds a double quote
GenNames == {<<"a">>, <<"b", "\"">>}

GenRecords ==
    UNION {[K -> {<<>>, <<"a">>, <<"\"">>, <<",">>}] : K \in SUBSET GenNames}

\* Object.keys(row): the keys of the row in the order they were added
KeyOrders(row) ==
    {ks \in SeqsUpTo(DOMAIN row, Cardinality(DOMAIN row)) :
        Len(ks) = Cardinality(DOMAIN row) /\ Range(ks) = DOMAIN row}

\* columns ?? Object.keys(rows[0])
Cols(a) == IF "columns" \in DOMAIN a THEN a.columns ELSE a.keys

\* a call with columns, and a call without: keys is then Object.keys(rows[0])
GenerateInit ==
    /\ \/ \E rs \in SeqsUpTo(GenRecords, MaxGenRows) :
              \E cs \in SeqsUpTo(GenNames, MaxFields) :
                  arg = [rows |-> rs, columns |-> cs]
       \/ arg = [rows |-> <<>>, keys |-> <<>>]
       \/ \E rs \in SeqsUpTo(GenRecords, MaxGenRows) \ {<<>>} :
              \E ks \in KeyOrders(rs[1]) : arg = [rows |-> rs, keys |-> ks]
    /\ ret = <<>>
    /\ lpc = "ready"
    /\ QueryIdle
    /\ FilterIdle
    /\ UploadIdle

CallGenerateCSVContent ==
    /\ UNCHANGED <<fvars, qvars, uvars>>
    /\ lpc = "ready"
    /\ ret' = GenerateCSVContent(arg.rows, Cols(arg))
    /\ lpc' = "done"
    /\ UNCHANGED arg

SpecGenerate == GenerateInit /\ [][CallGenerateCSVContent]_vars

\* ------------------------- parse, generate and parse again, on their own
\* the header line "a""b" (one header, named a"b) and the data line a
QuoteHeaderFile == <<"\"", "a", "\"", "\"", "b", "\"", "\n", "a">>

\* no white space but the line feed
RoundTripContents ==
    StringsUpTo({"a", ",", "\"", "\n"}, MaxContentLen) \cup {QuoteHeaderFile}

\* parseCSVContent(c), then generateCSVContent(rows, headers) of its result and
\* parseCSVContent of that text
RoundTrip(c) ==
    LET first == ParseCSVContent(c) IN
    IF ~first.ok THEN [first |-> first]
    ELSE LET text == GenerateCSVContent(first.rows, first.headers) IN
         [first |-> first, text |-> text, second |-> ParseCSVContent(text)]

RoundTripInit ==
    /\ arg \in RoundTripContents
    /\ ret = <<>>
    /\ lpc = "ready"
    /\ QueryIdle
    /\ FilterIdle
    /\ UploadIdle

CallRoundTrip ==
    /\ UNCHANGED <<fvars, qvars, uvars>>
    /\ lpc = "ready"
    /\ ret' = RoundTrip(arg)
    /\ lpc' = "done"
    /\ UNCHANGED arg

SpecRoundTrip == RoundTripInit /\ [][CallRoundTrip]_vars

\* ------------------------------------------------- claims: filter engine
RECURSIVE IsSubsequence(_, _)
IsSubsequence(s, t) ==
    IF s = <<>> THEN TRUE
    ELSE IF t = <<>> THEN FALSE
    ELSE IF Head(s) = Head(t) THEN IsSubsequence(Tail(s), Tail(t))
    ELSE IsSubsequence(s, Tail(t))

Relational == {"gt", "lt", "gte", "lte"}

\* the rows of fRows that every filter of the plan accepts, in order
KeptRows ==
    SelectSeq(fRows, LAMBDA row :
        \A k \in 1..Len(fPlan.filters) : FilterMatch(row, fPlan.filters[k]))

\* C4: the filter loop yields a subsequence of the fetched rows (nothing added,
\* nothing altered, order kept, never longer), and the rows unchanged when the
\* filter list is empty.
C4_FilterSubsequence ==
    fpc = "done" =>
        /\ IsSubsequence(fFiltered, fRows)
        /\ Len(fFiltered) <= Len(fRows)
        /\ (fPlan.filters = <<>> => fFiltered = fRows)

C4_Witness ==
    /\ fpc = "done"
    /\ Len(fPlan.filters) = 2
    /\ Len(fRows) = 2
    /\ fFiltered = <<fRows[2]>>
    /\ fRows[1] # fRows[2]

\* C5: filter lists that are permutations of each other give the same rows in
\* the same order.
C5_FilterOrderIrrelevant ==
    fpc = "done" =>
        \A p \in Permutations(1..Len(fPlan.filters)) :
            ApplyFilters(fRows, [i \in 1..Len(fPlan.filters) |-> fPlan.filters[p[i]]])
                = fFiltered

C5_Witness ==
    /\ fpc = "done"
    /\ Len(fPlan.filters) = 2
    /\ Len(fRows) = 2
    /\ FilterRows(fRows, fPlan.filters[1]) = <<fRows[1]>>
    /\ FilterRows(fRows, fPlan.filters[2]) = <<fRows[2]>>
    /\ fRows[1] # fRows[2]
    /\ fFiltered = <<>>

\* the one record of the state with the filter's column set to the empty string
WithEmptyString(row, c) == [k \in DOMAIN row \cup {c} |-> IF k = c THEN <<>> ELSE row[k]]

\* C6 as claimed: for every operator a record without the filter's column is
\* kept exactly when the same record with the column set to "" is kept.
C6_AbsentAsEmptyString ==
    (fpc = "done" /\ fPlan.filters[1].column \notin DOMAIN fRows[1]) =>
        ((fFiltered = fRows) <=>
            FilterMatch(WithEmptyString(fRows[1], fPlan.filters[1].column), fPlan.filters[1]))

\* C6 amended: that holds for equals, contains and starts_with (and for an
\* operator the switch does not know); for gt, lt, gte and lte a record without
\* the column is dropped whatever the filter value is.
C6_AbsentAmended ==
    (fpc = "done" /\ fPlan.filters[1].column \notin DOMAIN fRows[1]) =>
        IF fPlan.filters[1].operator \in Relational
        THEN fFiltered = <<>>
        ELSE ((fFiltered = fRows) <=>
                FilterMatch(WithEmptyString(fRows[1], fPlan.filters[1].column),
                            fPlan.filters[1]))

C6_Witness ==
    /\ fpc = "done"
    /\ fRows[1] = [c \in {} |-> <<>>]
    /\ fPlan.filters[1] = [column |-> ColA, operator |-> "gte", value |-> <<>>]
    /\ fFiltered = <<>>
    /\ FilterMatch([c \in {ColA} |-> <<>>], fPlan.filters[1])

\* C7: under gt, lt, gte and lte a record whose value does not coerce to a number
\* is dropped for every filter value, and a filter value that does not coerce
\* drops every record.
C7_NaNExcluded ==
    (fpc = "done" /\ fPlan.filters[1].operator \in Relational) =>
        /\ ToNumber(Get(fRows[1], fPlan.filters[1].column)).nan => fFiltered = <<>>
        /\ ToNumber(fPlan.filters[1].value).nan => fFiltered = <<>>

C7_Witness ==
    /\ fpc = "done"
    /\ fPlan.filters[1].operator = "gte"
    /\ fRows[1] = [c \in {ColA} |-> <<"a">>]
    /\ fPlan.filters[1].value = <<>>
    /\ fFiltered = <<>>

\* C8 as claimed: whenever plan.columns is present, the empty list included,
\* every returned record has exactly the requested columns as its keys.
C8_ProjectionAlways ==
    (fpc = "done" /\ "columns" \in DOMAIN fPlan) =>
        /\ Len(fOut) = Len(KeptRows)
        /\ \A i \in 1..Len(fOut) : DOMAIN fOut[i] = Range(fPlan.columns)

\* C8 amended: when plan.columns is present and not empty, the filters are
\* evaluated on the full fetched records and each surviving record is returned
\* as a record of exactly the requested columns, Undefined where the source has
\* none; when plan.columns is the empty list the surviving records are returned
\* as they are.
C8_ProjectionAfterFilter ==
    (fpc = "done" /\ "columns" \in DOMAIN fPlan) =>
        /\ Len(fOut) = Len(KeptRows)
        /\ fPlan.columns # <<>> =>
                \A i \in 1..Len(fOut) :
                    /\ DOMAIN fOut[i] = Range(fPlan.columns)
                    /\ \A c \in DOMAIN fOut[i] :
                          fOut[i][c] = IF c \in DOMAIN KeptRows[i] THEN KeptRows[i][c]
                                       ELSE Undefined
        /\ fPlan.columns = <<>> => fOut = KeptRows

C8_Witness ==
    /\ fpc = "done"
    /\ "columns" \in DOMAIN fPlan
    /\ fPlan.columns = <<ColB, ColC>>
    /\ Len(fPlan.filters) = 1
    /\ fPlan.filters[1].column = ColA
    /\ Len(fRows) = 2
    /\ Len(fOut) = 1
    /\ fOut[1][ColC] = Undefined
    /\ fOut[1][ColB] = <<"a">>

\* ---------------------------------------------- claims: executeQueryPlan
RECURSIVE Flatten(_)
Flatten(ss) == IF ss = <<>> THEN <<>> ELSE Head(ss) \o Flatten(Tail(ss))

\* the turn in progress, or the last one, got a plan from the planner
HasPlan == "queryPlan" \in DOMAIN response

\* the turn has ended and its assistant message carries results
TurnReturned ==
    /\ qpc = "idle"
    /\ HasPlan
    /\ messages # <<>>
    /\ "results" \in DOMAIN messages[Len(messages)]

\* the turn has ended by a failed fetch
FetchAborted ==
    /\ qpc = "idle"
    /\ fetched # <<>>
    /\ fetched[Len(fetched)].error

\* the records of the i-th fetch that pass every filter, projected, in fetch order
Segment(i) ==
    LET plan == response.queryPlan
        kept == SelectSeq(fetched[i].data, LAMBDA row :
                    \A k \in 1..Len(plan.filters) : FilterMatch(row, plan.filters[k]))
    IN ProjectRows(kept, plan)

\* C1: the result is the concatenation, in plan.dataset_ids order, of each
\* dataset's surviving records in the order its fetch returned them: one fetch
\* per listed id, nothing deduplicated or merged.
C1_Concatenation ==
    /\ (qpc = "fetch" /\ HasPlan) =>
          allResults = Flatten([i \in 1..Len(fetched) |-> Segment(i)])
    /\ TurnReturned =>
          /\ Len(fetched) = Len(response.queryPlan.dataset_ids)
          /\ \A i \in 1..Len(issued) : issued[i][1] = response.queryPlan.dataset_ids[i]
          /\ messages[Len(messages)].results =
                Flatten([i \in 1..Len(fetched) |-> Segment(i)])

\* no filters, 3 rows fetched for A and 2 for B: exactly those 5 rows, A's then B's
C1_Witness ==
    /\ TurnReturned
    /\ response.queryPlan.dataset_ids = <<"A", "B">>
    /\ response.queryPlan.filters = <<>>
    /\ "columns" \notin DOMAIN response.queryPlan
    /\ Len(fetched[1].data) = 3
    /\ Len(fetched[2].data) = 2
    /\ messages[Len(messages)].results = fetched[1].data \o fetched[2].data
    /\ Len(messages[Len(messages)].results) = 5

\* plan.limit, or 200 when the plan has none
ClaimedLimit ==
    IF "limit" \in DOMAIN response.queryPlan THEN response.queryPlan.limit ELSE 200

C3_FetchFailureAborts ==
    /\ Len(issued) = Len(fetched) + (IF qpc = "fetch" THEN 1 ELSE 0)
    /\ HasPlan =>
          /\ Len(issued) <= Len(response.queryPlan.dataset_ids)
          /\ \A i \in 1..Len(issued) : issued[i][1] = response.queryPlan.dataset_ids[i]
    /\ \A i \in 1..(Len(fetched) - 1) : ~fetched[i].error
    /\ FetchAborted =>
          /\ Len(issued) = Len(fetched)
          /\ toast = "Query failed"
          /\ messages[Len(messages)] = [role |-> "assistant", content |-> SorryText]
          /\ messages[Len(messages) - 1] = [role |-> "user", content |-> userMsg]

\* the second of three fetches fails after the first one left records
C3_Witness ==
    /\ FetchAborted
    /\ Len(fetched) = 2
    /\ Len(response.queryPlan.dataset_ids) > Len(issued)
    /\ allResults # <<>>
    /\ "results" \notin DOMAIN messages[Len(messages)]

\* ------------------------------------------------ claims: parseCSVContent
\* reader.onload has run on the file of the state
Loaded == upc = "idle" /\ file.present

\* the fields of the j-th data line of the file
DataFields(j) == ParseLine(NonBlankLines(file.content)[j + 1])

\* the last position at which the header list has the name h
LastPosition(headers, h) ==
    CHOOSE i \in 1..Len(headers) :
        /\ headers[i] = h
        /\ \A k \in (i + 1)..Len(headers) : headers[k] # h

\* C9 as claimed: every row's key set is the header set, and for every header
\* position i the row's cell for the i-th header is the i-th field of the line,
\* or "" when the line has fewer fields, whatever the header list is.
C9_ZipByPosition ==
    (Loaded /\ status = "previewing") =>
        \A j \in 1..Len(parsed.rows) :
            /\ DOMAIN parsed.rows[j] = Range(parsed.headers)
            /\ \A i \in 1..Len(parsed.headers) :
                  parsed.rows[j][parsed.headers[i]] =
                      IF i <= Len(DataFields(j)) THEN DataFields(j)[i] ELSE <<>>

\* C9 amended: every row's key set is the header set; the row's cell for a header
\* name is the field at the last position where that name occurs in the header
\* list ("" when the line has no field there), so that holds position by position
\* for a header list without a repeated name; fields beyond the header count are
\* dropped.
C9_ZipLastWins ==
    (Loaded /\ status = "previewing") =>
        /\ Len(parsed.rows) = Len(NonBlankLines(file.content)) - 1
        /\ \A j \in 1..Len(parsed.rows) :
              /\ DOMAIN parsed.rows[j] = Range(parsed.headers)
              /\ \A i \in 1..Len(parsed.headers) :
                    LET p == LastPosition(parsed.headers, parsed.headers[i]) IN
                    parsed.rows[j][parsed.headers[i]] =
                        IF p <= Len(DataFields(j)) THEN DataFields(j)[p] ELSE <<>>

\* a header name twice, and a data line whose two fields differ
C9_Witness ==
    /\ Loaded
    /\ status = "previewing"
    /\ parsed.headers = <<<<"a">>, <<"a">>>>
    /\ Len(parsed.rows) = 1
    /\ DataFields(1) = <<<<"a">>, <<"b">>>>
    /\ parsed.rows[1][<<"a">>] = <<"b">>

\* C10: the empty-input error exactly when the text has no non-blank line (all
\* its characters are white space), the missing-header error exactly when it has
\* one and every header token of the first non-blank line is empty, and otherwise
\* success with totalRows = non-blank lines - 1, whatever the data lines hold.
C10_ParseErrors ==
    Loaded =>
        LET blank == \A i \in 1..Len(file.content) : IsWhite(file.content[i])
            lines == NonBlankLines(file.content)
            noHeader == ~blank /\ \A t \in Range(ParseLine(lines[1])) : t = <<>>
        IN /\ (status = "error" /\ error = EmptyFileText) <=> blank
           /\ (status = "error" /\ error = NoHeadersText) <=> noHeader
           /\ (~blank /\ ~noHeader) <=>
                 (status = "previewing" /\ parsed.present
                    /\ parsed.totalRows = Len(lines) - 1)
           /\ status \in {"error", "previewing"}

\* a file whose first line is ,, and a data line after it
C10_Witness ==
    /\ Loaded
    /\ file.content = <<",", ",", "\n", "a">>
    /\ status = "error"
    /\ error = NoHeadersText

\* ---------------------------------------------------- claims: parseLine
QuotesBefore(line, i) == Cardinality({j \in 1..(i - 1) : line[j] = "\""})

\* the commas with an even number of quote characters before them
SplittingCommas(line) ==
    {i \in 1..Len(line) : line[i] = "," /\ QuotesBefore(line, i) % 2 = 0}

\* the k-th smallest element of a set of positions
NthOf(S, k) == CHOOSE i \in S : Cardinality({j \in S : j < i}) = k - 1

\* the text between the (k-1)-th and the k-th splitting comma
FieldText(line, k) ==
    LET C == SplittingCommas(line)
        from == IF k = 1 THEN 1 ELSE NthOf(C, k - 1) + 1
        to == IF k = Cardinality(C) + 1 THEN Len(line) ELSE NthOf(C, k) - 1
    IN SubSeq(line, from, to)

Unquoted(s) == SelectSeq(s, LAMBDA c : c # "\"")

AdjacentQuotes(line) ==
    \E i \in 1..(Len(line) - 1) : line[i] = "\"" /\ line[i + 1] = "\""

\* C11: parseLine splits exactly at the commas outside quotes, so it
\* returns one field more than there are such commas; the quotes that open
\* and close a section are dropped (a line with no two adjacent quotes
\* gives its pieces without their quotes, trimmed); a,"b,c",d gives
\* [a, b,c, d] and a,"b""c",d gives [a, b"c, d].
C11_ParseLineSplits ==
    lpc = "done" =>
        /\ Len(ret) = 1 + Cardinality(SplittingCommas(arg))
        /\ ~AdjacentQuotes(arg) =>
              \A k \in 1..Len(ret) : ret[k] = Trim(Unquoted(FieldText(arg, k)))
        /\ arg = ExampleQuotedComma => ret = << <<"a">>, <<"b", ",", "c">>, <<"d">> >>
        /\ arg = ExampleEscapedQuote => ret = << <<"a">>, <<"b", "\"", "c">>, <<"d">> >>

C11_Witness ==
    /\ lpc = "done"
    /\ arg = ExampleEscapedQuote
    /\ ret = << <<"a">>, <<"b", "\"", "c">>, <<"d">> >>

\* --------------------------------------------------- claims: detectType
\* C12: the rules are tried in the order boolean, number, date, string on
\* the non-empty values: no non-empty value gives string; all of them in
\* {true, false, yes, no, 1, 0} in any letter case gives boolean, also when
\* all are numeric; otherwise all numeric gives number; otherwise the
\* result is date or string.
C12_RuleOrder ==
    lpc = "done" =>
        LET nonEmpty == NonEmptyValues(arg) IN
        /\ nonEmpty = <<>> => ret = "string"
        /\ nonEmpty # <<>> /\ AllBoolean(nonEmpty) => ret = "boolean"
        /\ nonEmpty # <<>> /\ ~AllBoolean(nonEmpty) /\ AllNumber(nonEmpty) => ret = "number"
        /\ nonEmpty # <<>> /\ ~AllBoolean(nonEmpty) /\ ~AllNumber(nonEmpty)
              => ret \in {"date", "string"}

C12_Witness ==
    /\ lpc = "done"
    /\ arg = << <<"0">>, <<>>, <<"1">> >>
    /\ AllNumber(NonEmptyValues(arg))
    /\ ret = "boolean"

\* C13 as stated: detectType(["2024-01-01", "2024-02-02", "x"]) returns date.
C13_TwoOfThreeIsDate ==
    lpc = "done" /\ arg = ExampleTwoOfThree => ret = "date"

\* C13 amended: detectType(["2024-01-01", "2024-02-02", "x"]) returns
\* string, and so does every sample that is neither boolean nor number and
\* has exactly two of three non-empty values matching a date pattern.
C13_TwoOfThreeIsString ==
    lpc = "done" =>
        LET nonEmpty == NonEmptyValues(arg) IN
        /\ arg = ExampleTwoOfThree => ret = "string"
        /\ /\ Len(nonEmpty) = 3
           /\ DateCount(nonEmpty) = 2
           /\ ~AllBoolean(nonEmpty)
           /\ ~AllNumber(nonEmpty)
           => ret = "string"

C13_Witness ==
    /\ lpc = "done"
    /\ arg = ExampleTwoOfThree
    /\ DateCount(NonEmptyValues(arg)) = 2
    /\ ret = "string"

\* C14 as stated: a sample that is neither boolean nor number is date
\* exactly when 10 * m > 7 * n, for m the number of non-empty values that
\* match a date pattern and n the number of non-empty values, and string
\* otherwise.
C14_DateIffOverSeventyPercent ==
    lpc = "done" =>
        LET nonEmpty == NonEmptyValues(arg)
            m == DateCount(nonEmpty)
            n == Len(nonEmpty)
        IN n > 0 /\ ~AllBoolean(nonEmpty) /\ ~AllNumber(nonEmpty) =>
               /\ ret = "date" <=> 10 * m > 7 * n
               /\ ret # "date" => ret = "string"

\* ------------------------------------------- claims: parseCSVContent columns
\* the cells of the i-th header's column, in row order
ColumnCells(i) ==
    [j \in 1..Len(parsed.rows) |-> parsed.rows[j][parsed.headers[i]]]

\* C15: parseCSVContent returns one ColumnInfo per header position, in
\* header order; a column's detectedType is detectType of its cells in the
\* first min(100, totalRows) rows (so no cell of a later row has a part in
\* it), and its sampleValues are its cells in the first min(5, totalRows)
\* rows, in row order.
C15_ColumnsFromSample ==
    (Loaded /\ status = "previewing") =>
        /\ Len(parsed.columns) = Len(parsed.headers)
        /\ \A i \in 1..Len(parsed.headers) :
              /\ parsed.columns[i].name = parsed.headers[i]
              /\ parsed.columns[i].detectedType =
                    DetectType(SubSeq(ColumnCells(i), 1, Min(100, parsed.totalRows)))
              /\ parsed.columns[i].sampleValues =
                    SubSeq(ColumnCells(i), 1, Min(5, parsed.totalRows))

\* 101 rows, the last one with cells that would change both types
C15_Witness ==
    /\ Loaded
    /\ status = "previewing"
    /\ parsed.totalRows = 101
    /\ parsed.rows[101] = (ColA :> <<"x">>) @@ (ColB :> <<"x">>)
    /\ parsed.columns[1].detectedType = "boolean"
    /\ parsed.columns[2].detectedType = "number"
    /\ DetectType(ColumnCells(1)) = "string"
    /\ Len(parsed.columns[1].sampleValues) = 5

\* ------------------------------------------- claims: generateCSVContent
\* a field wrapped in double quotes, every double quote inside it doubled
QuotedField(v) == Quoted(DoubleQuotes(v))

\* C16 as stated: for a non-empty record list the output is the header line
\* and one line per record in order, joined by single line feeds with none
\* at the end, every field of every line (header and data) quoted with its
\* inner quotes doubled, a missing field written as ""; for an empty
\* record list the output is the empty string.
C16_EveryFieldQuoted ==
    lpc = "done" =>
        LET cols == Cols(arg)
            headerLine == Join([i \in 1..Len(cols) |-> QuotedField(cols[i])], <<",">>)
            dataLine(row) ==
                Join([i \in 1..Len(cols) |->
                         QuotedField(IF cols[i] \in DOMAIN row THEN row[cols[i]] ELSE <<>>)],
                     <<",">>)
        IN IF arg.rows = <<>> THEN ret = <<>>
           ELSE ret = Join(<<headerLine>> \o [j \in 1..Len(arg.rows) |-> dataLine(arg.rows[j])],
                           <<"\n">>)

\* no line feed inside a quoted section
NoQuotedLineFeed(c) ==
    \A i \in 1..Len(c) : c[i] = "\n" => QuotesBefore(c, i) % 2 = 0

\* C17 as stated: for every content that parseCSVContent accepts, with no
\* line feed in a field and no white space around a field (the contents
\* drawn have no white space but line feeds), parsing the text generated
\* from its rows and headers succeeds and gives the same headers and rows.
C17_RoundTrip ==
    (lpc = "done" /\ ret.first.ok /\ NoQuotedLineFeed(arg)) =>
        /\ ret.second.ok
        /\ ret.second.headers = ret.first.headers
        /\ ret.second.rows = ret.first.rows

\* ------------------------------------------------ claims: the chat turn
\* the turn has ended with a planner response that carries no queryPlan
TalkReturned == qpc = "idle" /\ response # NoResponse /\ ~HasPlan

\* C18: without a queryPlan in the planner's response nothing is executed:
\* no fetch is issued in that turn and nothing is accumulated, and the one
\* assistant message appended is the planner's message with no results;
\* fetches are issued only in a turn whose response carries a queryPlan.
C18_NoPlanNoFetch ==
    /\ ~HasPlan => issued = <<>> /\ fetched = <<>> /\ allResults = <<>>
    /\ TalkReturned =>
          /\ messages[Len(messages)] = [role |-> "assistant", content |-> response.message]
          /\ messages[Len(messages) - 1] = [role |-> "user", content |-> userMsg]

C18_Witness ==
    /\ TalkReturned
    /\ response.message = LLMText
    /\ Len(messages) = 2
    /\ messages[2].content = LLMText
    /\ "results" \notin DOMAIN messages[2]
    /\ issued = <<>>

\* user, assistant, user, assistant, ...
Alternates ==
    \A i \in 1..Len(messages) :
        messages[i].role = IF i % 2 = 1 THEN "user" ELSE "assistant"

\* C19: an accepted sendMessage appends the user message and sets isLoading;
\* while isLoading is true no message is appended (a sendMessage call then
\* changes nothing); isLoading goes back to false with exactly one
\* assistant message appended, and it does so eventually whether the
\* planner call fails, a fetch fails or the turn succeeds; so the messages
\* alternate user, assistant.
C19_TurnsComplete ==
    /\ [](/\ Alternates
          /\ isLoading <=> qpc # "idle"
          /\ isLoading <=> Len(messages) % 2 = 1)
    /\ [][(~isLoading /\ isLoading') =>
              messages' = Append(messages, [role |-> "user", content |-> Trim(input)])]_vars
    /\ [][(isLoading /\ isLoading') => messages' = messages]_vars
    /\ [][(isLoading /\ ~isLoading') =>
              /\ Len(messages') = Len(messages) + 1
              /\ SubSeq(messages', 1, Len(messages)) = messages
              /\ messages'[Len(messages')].role = "assistant"]_vars
    /\ [][(~isLoading /\ ~isLoading') => messages' = messages]_vars
    /\ (isLoading ~> ~isLoading)

\* a turn ended by a failed fetch: the user message and one assistant message
C19_Witness ==
    /\ FetchAborted
    /\ ~isLoading
    /\ Len(messages) = 2
    /\ messages[1].role = "user"
    /\ messages[2].role = "assistant"

\* -------------------------------------------------- claims: handleImport
\* handleImport has got its dataset and is running, or has ended one way or the other
ImportBegun ==
    /\ dsid > 0
    /\ \/ status \in {"importing", "complete"}
       \/ status = "error" /\ error = StoreErrorText

\* an import ended by a failed batch insert
BatchFailed == ImportBegun /\ status = "error"

\* what the tables hold in a state
C20_Stored ==
    /\ Len(records) = Len(datasets)
    /\ \A d \in 1..Len(datasets) :
          /\ datasets[d].status \in {"processing", "complete"}
          /\ datasets[d].status = "complete" => Len(records[d]) = datasets[d].row_count
    /\ ImportBegun =>
          /\ datasets[dsid].row_count = Len(parsed.rows)
          /\ ipos % 500 = 0
          /\ Len(records[dsid]) = Min(ipos, Len(parsed.rows))
          /\ records[dsid] = SubSeq(parsed.rows, 1, Len(records[dsid]))
    /\ BatchFailed =>
          /\ datasets[dsid].status = "processing"
          /\ Len(records[dsid]) < Len(parsed.rows)

\* how a step changes the tables
C20_Step ==
    /\ Len(datasets') >= Len(datasets)
    /\ Len(datasets') > Len(datasets) =>
          /\ datasets' = Append(datasets, [row_count |-> Len(parsed.rows),
                                           status |-> "processing"])
          /\ records' = Append(records, <<>>)
    /\ \A d \in 1..Len(datasets) :
          /\ datasets'[d] # datasets[d] =>
                /\ d = dsid
                /\ datasets'[d] = [datasets[d] EXCEPT !.status = "complete"]
                /\ Len(records[d]) = datasets[d].row_count
                /\ records' = records
          /\ records'[d] # records[d] =>
                /\ d = dsid
                /\ status = "importing"
                /\ records'[d] = records[d] \o
                      SubSeq(parsed.rows, Len(records[d]) + 1,
                             Min(Len(records[d]) + 500, Len(parsed.rows)))
    /\ (status = "error" \/ status' = "error") =>
          records' = records /\ datasets' = datasets

\* C20: the dataset row is created with status processing and set to
\* complete only when all its rows are stored, in batches of 500 in row
\* order; a complete dataset has exactly row_count records; a failed batch
\* insert leaves the dataset processing and the earlier batches stored, and
\* nothing is stored after it.
C20_CompleteOnlyAfterAllBatches == []C20_Stored /\ [][C20_Step]_vars

\* 501 rows: the first batch stored, the second failed
C20_Witness ==
    /\ BatchFailed
    /\ Len(parsed.rows) = 501
    /\ Len(records[dsid]) = 500
    /\ records[dsid][500] = parsed.rows[500]
    /\ datasets[dsid] = [row_count |-> 501, status |-> "processing"]

\* C21: whenever the page status is complete, every parsed row is stored for
\* the dataset of this import and the stored status of that dataset is
\* complete; so an import whose dataset insert, batch insert or final status
\* update failed never shows complete.
C21_CompleteMeansStored ==
    status = "complete" =>
        /\ dsid > 0
        /\ records[dsid] = parsed.rows
        /\ datasets[dsid].status = "complete"

====
